---- MODULE Spec2Model ----
(***************************************************************************)
(* A model of package gosqlrwdb: a read/write splitting router in front    *)
(* of one primary *sql.DB and a list of read replica *sql.DB handles.      *)
(*                                                                         *)
(* The DB struct, the heartbeat goroutine started by New, the round-robin  *)
(* replica selection and the public operations that resolve a target are   *)
(* modelled.  A *sql.DB handle is opaque: the model records which handle   *)
(* an operation invoked, not what the handle answered.  Code that runs     *)
(* between Lock and Unlock (or RLock and RUnlock) of countMutex is one     *)
(* step; the heartbeat goroutine holds the write lock over several steps   *)
(* because it pings the replicas while holding it.                         *)
(***************************************************************************)
EXTENDS Integers, Sequences, FiniteSets, TLC

\* ------------------------------------------------------------------ bounds
MaxReplicas == 2        \* New is called with 0..MaxReplicas read replicas
MaxClients == 2         \* goroutines calling into one DB concurrently
MaxSelections == 4      \* replica selections started on one DB
FailoverReplicas == 3   \* read replicas of the DB of FailoverSpec
IntBits == 8            \* width of Go's int, scaled down (64 in the build)

\* --------------------------------------------------------------- constants
ReplicaNames == <<"r0", "r1", "r2", "r3", "r4">>

ErrPrimaryInMaintenance == "ErrPrimaryInMaintenance"
ErrNotProvidedPrimary == "ErrNotProvidedPrimary"
ErrNotProvidedReplicas == "ErrNotProvidedReplicas"
ErrNotQuerySQL == "ErrNotQuerySQL"
ErrNoReplicaAvailable == "ErrNoReplicaAvailable"
\* runtime panics of the Go runtime, not package errors
NilDereference == "nil pointer dereference"
DivideByZero == "integer divide by zero"
IndexOutOfRange == "index out of range"
CloseOfClosedChannel == "close of closed channel"
\* the error a handle's Ping returned
PingError == "ping error"

\* query texts, as tuples of characters
Queries ==
    { <<"s","e","l","e","c","t"," ","1">>,
      <<"S","e","l","E","C","T">>,
      <<" ","s","e","l","e","c","t">>,
      <<"i","n","s","e","r","t"," ","1">> }

VARIABLES
    master,               \* db.master: "primary" or "nil"
    readreplicas,         \* db.readreplicas: sequence of replica handles
    count,                \* db.count
    countMutex,           \* db.countMutex: "unlocked", "heartbeat", "abandoned"
    needHeartbeat,        \* db.needHeartbeat
    unavailableReplicas,  \* db.unavailableReplicas
    stopHeartbeat,        \* db.stopHeartbeat: "open" or "closed"
    primaryInMaintence,   \* db.primaryInMaintence
    DoValidateNew,        \* package variable DoValidateNew
    hb,                   \* the goroutine started by New: "select",
                          \* "heartbeat", "stopped" or "crashed"
    clients,              \* the goroutines that call into the DB
    call,                 \* per client: the replica selection in progress
    last,                 \* the operation that returned in the latest step,
                          \* NoCall if none did
    nSel,                 \* number of replica selections that have finished
    uChanged,             \* a heartbeat has replaced unavailableReplicas by
                          \* a different set since New returned
    pingFailed,           \* the replicas whose Ping returned an error in the
                          \* latest pass of heartbeat, New's or a tick's
    observed              \* <<cursor value, index>> of every call of
                          \* readReplicaRoundRobinHelper, in the order of
                          \* their critical sections

vars == <<master, readreplicas, count, countMutex, needHeartbeat,
          unavailableReplicas, stopHeartbeat, primaryInMaintence,
          DoValidateNew, hb, clients, call, last, nSel, uChanged,
          pingFailed, observed>>

\* fixed by New
config == <<master, readreplicas, needHeartbeat, primaryInMaintence, clients>>

\* what an operation that resolves a target never writes
monitor == <<unavailableReplicas, stopHeartbeat, hb, DoValidateNew, uChanged,
             pingFailed>>

\* ------------------------------------------------------------ Go integers
MaxInt == 2 ^ (IntBits - 1) - 1
MinInt == -(2 ^ (IntBits - 1))

\* a variant in which the increment has no effect
IncIntLost(x) == x

\* a variant that steps over a slot
IncIntTwice(x) == x + 2

\* x + 1 on a signed int of IntBits bits
IncInt(x) == IF x = MaxInt THEN MinInt ELSE x + 1

\* Go's % truncates toward zero: the result has the sign of the dividend
GoRem(a, n) == IF a >= 0 THEN a % n ELSE -((-a) % n)

\* ------------------------------------------------------------- classifier
\* a variant that compares the bytes as they are
ToLowerNever(ch) == ch

\* strings.ToLower on the letters that the statements of the model use
ToLower(ch) ==
    CASE ch = "S" -> "s" [] ch = "E" -> "e" [] ch = "L" -> "l"
      [] ch = "C" -> "c" [] ch = "T" -> "t" [] ch = "I" -> "i"
      [] ch = "N" -> "n" [] ch = "R" -> "r" [] OTHER -> ch

\* strings.ToUpper on the letters of "select"
ToUpper(ch) ==
    CASE ch = "s" -> "S" [] ch = "e" -> "E" [] ch = "l" -> "L"
      [] ch = "c" -> "C" [] ch = "t" -> "T" [] OTHER -> ch

IsQuerySqlFunc(query) ==
    /\ Len(query) >= 6
    /\ [i \in 1..6 |-> ToLower(query[i])] = <<"s","e","l","e","c","t">>

\* a variant that accepts every query
validateQueryAccepting(query) == "nil"

validateQuery(query) == IF ~IsQuerySqlFunc(query) THEN ErrNotQuerySQL ELSE "nil"

\* a variant that does not look into the list
validateNewNonEmpty(m, rs) ==
    IF m = "nil" THEN ErrNotProvidedPrimary
    ELSE IF Len(rs) = 0 THEN ErrNotProvidedReplicas
    ELSE "nil"

validateNew(m, rs) ==
    IF m = "nil" THEN ErrNotProvidedPrimary
    ELSE IF Len(rs) = 0 THEN ErrNotProvidedReplicas
    ELSE IF \E i \in 1..Len(rs) : rs[i] = "nil" THEN ErrNotProvidedReplicas
    ELSE "nil"

\* ------------------------------------------------------------------- state
Replicas == {readreplicas[i] : i \in 1..Len(readreplicas)}

Idle == [pc |-> "idle", op |-> "-", ro |-> FALSE, up |-> FALSE, try |-> 0,
         r |-> "nil", from |-> 0]

\* the record of a returned operation: ro is what IsQuerySqlFunc said of
\* the query and up what UsePrimaryFromContext said of the context (FALSE
\* when the operation did not ask), invoked the handles it called a method
\* of, sel whether it called readReplicaRoundRobin and took the bypass or the
\* checked loop, attempts its calls of readReplicaRoundRobinHelper, advanced
\* how far db.count moved between its call and its return, failed the
\* handles whose method returned an error to it, errs the handles whose
\* errors the error it returned is made of
NoCall == [op |-> "-", ro |-> FALSE, up |-> FALSE, err |-> "nil",
           panic |-> FALSE, invoked |-> <<>>, sel |-> "none", attempts |-> 0,
           advanced |-> 0, failed |-> <<>>, errs |-> <<>>,
           query |-> <<>>, args |-> <<>>]

\* a process whose goroutine panicked without recover is gone
Alive == hb # "crashed"

InProgress == {c \in clients : call[c].pc # "idle"}

\* heartbeat(readreplicas): the replicas whose Ping returned an error;
\* pingErr[i] tells whether the Ping of the i-th replica did
RECURSIVE heartbeatFrom(_, _, _)
heartbeatFrom(rs, pingErr, i) ==
    IF i > Len(rs) THEN {}
    ELSE (IF pingErr[i] THEN {rs[i]} ELSE {})
         \cup heartbeatFrom(rs, pingErr, i + 1)

\* a variant that pings nothing
heartbeatSkipped(rs, pingErr) == {}

\* a variant that notes a failure under the handle after the one pinged
heartbeatShifted(rs, pingErr) ==
    {ReplicaNames[i + 1] : i \in {j \in 1..Len(rs) : pingErr[j]}}

heartbeat(rs, pingErr) == heartbeatFrom(rs, pingErr, 1)

\* the replicas whose Ping returned an error
PingFailures(rs, pingErr) == {rs[i] : i \in {j \in 1..Len(rs) : pingErr[j]}}

\* New(master, readreplicas...) with n replicas: the state when New returns
Constructed(n) ==
    /\ master \in {"primary", "nil"}
    /\ readreplicas = SubSeq(ReplicaNames, 1, n)
    /\ DoValidateNew \in BOOLEAN
    /\ DoValidateNew => validateNew(master, readreplicas) = "nil"
    /\ needHeartbeat \in BOOLEAN
    /\ IF needHeartbeat
       THEN \E pingErr \in [1..Len(readreplicas) -> BOOLEAN] :
               /\ unavailableReplicas = heartbeat(readreplicas, pingErr)
               /\ pingFailed = PingFailures(readreplicas, pingErr)
       ELSE unavailableReplicas = {} /\ pingFailed = {}
    /\ count = -1
    /\ countMutex = "unlocked"
    /\ stopHeartbeat = "open"
    /\ primaryInMaintence \in BOOLEAN
    /\ hb = "select"
    /\ clients \in {1..1, 1..MaxClients}
    /\ call = [c \in clients |-> Idle]
    /\ last = NoCall
    /\ nSel = 0
    /\ uChanged = FALSE
    /\ observed = <<>>

Init == \E n \in 0..MaxReplicas : Constructed(n)

\* ---------------------------------------------------------------- results
\* a variant in which the operations that return a row do not panic
PanicsOnErrorExceptRows(op) ==
    op \in {"New", "SetConnMaxLifetime", "SetMaxIdleConns", "SetMaxOpenConns"}

\* QueryRow and QueryRowContext have no error result: they panic(err)
PanicsOnError(op) ==
    op \in {"New", "QueryRow", "QueryRowContext", "SetConnMaxLifetime",
            "SetMaxIdleConns", "SetMaxOpenConns"}

RuntimePanics == {NilDereference, DivideByZero, IndexOutOfRange,
                  CloseOfClosedChannel}

\* the call ends in a panic instead of a return
Panics(op, err) ==
    err \in RuntimePanics \/ (err # "nil" /\ PanicsOnError(op))

Result(op, ro, up, err, invoked, sel, attempts, from) ==
    [op |-> op, ro |-> ro, up |-> up, err |-> err, panic |-> Panics(op, err),
     invoked |-> invoked, sel |-> sel, attempts |-> attempts,
     advanced |-> count' - from, failed |-> <<>>, errs |-> <<>>,
     query |-> <<>>, args |-> <<>>]

\* if !db.needHeartbeat || bypassAutoFailover
Mode(bypass) == IF bypass THEN "bypass" ELSE "checked"

\* the operation of client c returns (or panics) without a replica selection
Return(c, op, ro, up, err, invoked) ==
    /\ UNCHANGED <<count, countMutex, nSel, observed>>
    /\ last' = Result(op, ro, up, err, invoked, "none", 0, count)
    /\ call' = [call EXCEPT ![c] = Idle]

\* the replica selection of client c is over after `attempts` calls of the
\* helper: the operation delegates to the replica it got, or returns (or
\* panics with) the error of the selection
ReturnSelected(c, op, ro, up, err, handle, bypass, attempts, from) ==
    /\ last' = Result(op, ro, up, err,
                      IF handle = "nil" THEN <<>> ELSE <<handle>>,
                      Mode(bypass), attempts, from)
    /\ call' = [call EXCEPT ![c] = Idle]
    /\ nSel' = nSel + 1

\* an operation without a query returns (or panics) after it called a
\* method of each handle of `invoked`; the calls of `failed` returned an error
ReturnAll(c, op, err, invoked, failed, errs) ==
    /\ UNCHANGED <<count, countMutex, nSel, observed>>
    /\ last' = [Result(op, FALSE, FALSE, err, invoked, "none", 0, count)
                 EXCEPT !.failed = failed, !.errs = errs]
    /\ call' = [call EXCEPT ![c] = Idle]

\* db.master.<method>(...): the target is the primary
OnPrimary(c, op, ro, up) ==
    IF master = "nil"
    THEN Return(c, op, ro, up, NilDereference, <<>>)
    ELSE Return(c, op, ro, up, "nil", <<master>>)

\* a variant that looks for the primary before the maintenance flag
PrimaryOpNilFirst(c, op, ro, up) ==
    IF ~DoValidateNew /\ master = "nil"
    THEN Return(c, op, ro, up, ErrNotProvidedPrimary, <<>>)
    ELSE IF primaryInMaintence
    THEN Return(c, op, ro, up, ErrPrimaryInMaintenance, <<>>)
    ELSE OnPrimary(c, op, ro, up)

\* a variant without the maintenance check
PrimaryOpUnguarded(c, op, ro, up) ==
    IF ~DoValidateNew /\ master = "nil"
    THEN Return(c, op, ro, up, ErrNotProvidedPrimary, <<>>)
    ELSE OnPrimary(c, op, ro, up)

\* the checks every primary-targeted operation makes before it delegates
PrimaryOp(c, op, ro, up) ==
    IF primaryInMaintence
    THEN Return(c, op, ro, up, ErrPrimaryInMaintenance, <<>>)
    ELSE IF ~DoValidateNew /\ master = "nil"
    THEN Return(c, op, ro, up, ErrNotProvidedPrimary, <<>>)
    ELSE OnPrimary(c, op, ro, up)

\* ------------------------------------------------------ replica selection
\* a variant that takes the index of the slot after the cursor's
RoundRobinIndexNextSlot(cnt, n) == GoRem(cnt + 1, n)

\* idx = db.count % len(db.readreplicas), after db.count++
RoundRobinIndex(cnt, n) == GoRem(cnt, n)

\* a variant without the lookup: every replica passes
IsUnavailableNever(r, unavailable) == FALSE

\* _, unavailable := db.unavailableReplicas[r]
IsUnavailable(r, unavailable) == r \in unavailable

\* a variant whose loop stops one try early
TryAgainLess(try, n) == try + 1 < n

\* for try := 1; try <= len(db.readreplicas); try++
TryAgain(try, n) == try + 1 <= n

\* readReplicaRoundRobinHelper(), called for the try-th time by an operation:
\* Lock, count++, idx, Unlock, index the list.  A bypassing selection returns
\* the replica; the loop of readReplicaRoundRobin goes on to its check of r.
Helper(c, op, ro, up, bypass, try, from) ==
    /\ countMutex = "unlocked"
    /\ count' = IncInt(count)
    /\ IF Len(readreplicas) = 0
       THEN \* the panic leaves the function between Lock and Unlock
            /\ countMutex' = "abandoned"
            /\ observed' = observed
            /\ ReturnSelected(c, op, ro, up, DivideByZero, "nil", bypass,
                              try, from)
       ELSE LET idx == RoundRobinIndex(count', Len(readreplicas)) IN
            /\ countMutex' = countMutex
            /\ observed' = Append(observed, <<count', idx>>)
            /\ IF idx < 0
               THEN ReturnSelected(c, op, ro, up, IndexOutOfRange, "nil",
                                   bypass, try, from)
               ELSE IF bypass
               THEN ReturnSelected(c, op, ro, up, "nil",
                                   readreplicas[idx + 1], bypass, try, from)
               ELSE /\ call' = [call EXCEPT ![c] =
                           [pc |-> "check", op |-> op, ro |-> ro, up |-> up,
                            try |-> try, r |-> readreplicas[idx + 1],
                            from |-> from]]
                    /\ last' = NoCall
                    /\ UNCHANGED nSel

\* readReplicaRoundRobin(bypassAutoFailover...) as an operation calls it, up
\* to and including the first call of the helper
readReplicaRoundRobin(c, op, ro, up, bypassAutoFailover) ==
    /\ nSel + Cardinality(InProgress) < MaxSelections
    /\ IF ~DoValidateNew /\ Len(readreplicas) = 0
       THEN /\ UNCHANGED <<call, count, countMutex, observed>>
            /\ last' = Result(op, ro, up, ErrNotProvidedReplicas, <<>>,
                            Mode(~needHeartbeat \/ bypassAutoFailover), 0,
                            count)
            /\ nSel' = nSel + 1
       ELSE IF ~needHeartbeat \/ bypassAutoFailover
       THEN Helper(c, op, ro, up, TRUE, 1, count)
       ELSE IF ~TryAgain(0, Len(readreplicas))
       THEN /\ UNCHANGED <<call, count, countMutex, observed>>
            /\ last' = Result(op, ro, up, ErrNoReplicaAvailable, <<>>,
                            "checked", 0, count)
            /\ nSel' = nSel + 1
       ELSE Helper(c, op, ro, up, FALSE, 1, count)

\* a variant that pings r and marks it unavailable when the Ping fails
readReplicaRoundRobinCheckPinging(c) ==
    /\ Alive /\ c \in clients
    /\ call[c].pc = "check"
    /\ countMutex = "unlocked"
    /\ UNCHANGED <<config, stopHeartbeat, hb, DoValidateNew, uChanged,
                   pingFailed, count, countMutex, observed>>
    /\ unavailableReplicas' = unavailableReplicas \cup {call[c].r}
    /\ ReturnSelected(c, call[c].op, call[c].ro, call[c].up,
                      ErrNoReplicaAvailable, "nil", FALSE, call[c].try,
                      call[c].from)

\* the loop of readReplicaRoundRobin after the helper returned r: RLock, look
\* r up in db.unavailableReplicas, RUnlock; return r, or continue with the
\* next try, or leave the loop with ErrNoReplicaAvailable
readReplicaRoundRobinCheck(c) ==
    /\ Alive /\ c \in clients
    /\ call[c].pc = "check"
    /\ countMutex = "unlocked"
    /\ UNCHANGED <<config, monitor, count, countMutex, observed>>
    /\ IF IsUnavailable(call[c].r, unavailableReplicas)
       THEN IF TryAgain(call[c].try, Len(readreplicas))
            THEN /\ call' = [call EXCEPT ![c].pc = "helper",
                                         ![c].try = @ + 1,
                                         ![c].r = "nil"]
                 /\ last' = NoCall
                 /\ UNCHANGED nSel
            ELSE ReturnSelected(c, call[c].op, call[c].ro, call[c].up,
                                ErrNoReplicaAvailable, "nil", FALSE,
                                call[c].try, call[c].from)
       ELSE ReturnSelected(c, call[c].op, call[c].ro, call[c].up,
                           "nil", call[c].r, FALSE, call[c].try,
                           call[c].from)

\* the next try of the loop: r := db.readReplicaRoundRobinHelper()
readReplicaRoundRobinHelper(c) ==
    /\ Alive /\ c \in clients
    /\ call[c].pc = "helper"
    /\ Helper(c, call[c].op, call[c].ro, call[c].up, FALSE, call[c].try,
              call[c].from)
    /\ UNCHANGED <<config, monitor>>

\* ------------------------------------------------------- public operations
CanCall(c) == Alive /\ c \in clients /\ call[c].pc = "idle"

\* Close ends the use of a DB: once it was called, no client starts another
\* operation on the DB, except a second Close
InUse == stopHeartbeat = "open"

Query(c, query) ==
    /\ CanCall(c) /\ InUse
    /\ LET ro == IsQuerySqlFunc(query) IN
       IF validateQuery(query) # "nil"
       THEN Return(c, "Query", ro, FALSE, ErrNotQuerySQL, <<>>)
       ELSE readReplicaRoundRobin(c, "Query", ro, FALSE, FALSE)
    /\ UNCHANGED <<config, monitor>>

\* a variant that looks at the directive before it validates the query
QueryContextDirectiveFirst(c, query, usePrimary) ==
    /\ CanCall(c) /\ InUse
    /\ LET ro == IsQuerySqlFunc(query) IN
       IF usePrimary /\ ~primaryInMaintence
       THEN IF ~DoValidateNew /\ master = "nil"
            THEN Return(c, "QueryContext", ro, usePrimary,
                        ErrNotProvidedPrimary, <<>>)
            ELSE OnPrimary(c, "QueryContext", ro, usePrimary)
       ELSE IF validateQuery(query) # "nil"
       THEN Return(c, "QueryContext", ro, usePrimary, ErrNotQuerySQL, <<>>)
       ELSE readReplicaRoundRobin(c, "QueryContext", ro, usePrimary, FALSE)
    /\ UNCHANGED <<config, monitor>>

\* a variant that honours the directive on a DB in maintenance
QueryContextStrictDirective(c, query, usePrimary) ==
    /\ CanCall(c) /\ InUse
    /\ LET ro == IsQuerySqlFunc(query) IN
       IF validateQuery(query) # "nil"
       THEN Return(c, "QueryContext", ro, usePrimary, ErrNotQuerySQL, <<>>)
       ELSE IF usePrimary
       THEN PrimaryOp(c, "QueryContext", ro, usePrimary)
       ELSE readReplicaRoundRobin(c, "QueryContext", ro, usePrimary, FALSE)
    /\ UNCHANGED <<config, monitor>>

QueryContext(c, query, usePrimary) ==
    /\ CanCall(c) /\ InUse
    /\ LET ro == IsQuerySqlFunc(query) IN
       IF validateQuery(query) # "nil"
       THEN Return(c, "QueryContext", ro, usePrimary, ErrNotQuerySQL, <<>>)
       ELSE IF usePrimary /\ ~primaryInMaintence
       THEN IF ~DoValidateNew /\ master = "nil"
            THEN Return(c, "QueryContext", ro, usePrimary,
                        ErrNotProvidedPrimary, <<>>)
            ELSE OnPrimary(c, "QueryContext", ro, usePrimary)
       ELSE readReplicaRoundRobin(c, "QueryContext", ro, usePrimary, FALSE)
    /\ UNCHANGED <<config, monitor>>

\* a variant that selects with the check of unavailableReplicas
QueryRowChecked(c, query) ==
    /\ CanCall(c) /\ InUse
    /\ readReplicaRoundRobin(c, "QueryRow", IsQuerySqlFunc(query), FALSE,
                             FALSE)
    /\ UNCHANGED <<config, monitor>>

QueryRow(c, query) ==
    /\ CanCall(c) /\ InUse
    /\ readReplicaRoundRobin(c, "QueryRow", IsQuerySqlFunc(query), FALSE, TRUE)
    /\ UNCHANGED <<config, monitor>>

\* a variant that ignores the directive
QueryRowContextIgnoringDirective(c, query, usePrimary) ==
    /\ CanCall(c) /\ InUse
    /\ readReplicaRoundRobin(c, "QueryRowContext", IsQuerySqlFunc(query),
                             usePrimary, TRUE)
    /\ UNCHANGED <<config, monitor>>

QueryRowContext(c, query, usePrimary) ==
    /\ CanCall(c) /\ InUse
    /\ LET ro == IsQuerySqlFunc(query) IN
       IF usePrimary /\ ~primaryInMaintence
       THEN IF ~DoValidateNew /\ master = "nil"
            THEN Return(c, "QueryRowContext", ro, usePrimary,
                        ErrNotProvidedPrimary, <<>>)
            ELSE OnPrimary(c, "QueryRowContext", ro, usePrimary)
       ELSE readReplicaRoundRobin(c, "QueryRowContext", ro, usePrimary, TRUE)
    /\ UNCHANGED <<config, monitor>>

Begin(c) ==
    /\ CanCall(c) /\ InUse
    /\ PrimaryOp(c, "Begin", FALSE, FALSE)
    /\ UNCHANGED <<config, monitor>>

BeginTx(c) ==
    /\ CanCall(c) /\ InUse
    /\ PrimaryOp(c, "BeginTx", FALSE, FALSE)
    /\ UNCHANGED <<config, monitor>>

\* a variant that sends a select to a replica, as Prepare does
ExecClassifying(c, query) ==
    /\ CanCall(c) /\ InUse
    /\ LET isQuery == IsQuerySqlFunc(query) IN
       IF isQuery
       THEN readReplicaRoundRobin(c, "Exec", isQuery, FALSE, FALSE)
       ELSE PrimaryOp(c, "Exec", isQuery, FALSE)
    /\ UNCHANGED <<config, monitor>>

Exec(c, query) ==
    /\ CanCall(c) /\ InUse
    /\ PrimaryOp(c, "Exec", IsQuerySqlFunc(query), FALSE)
    /\ UNCHANGED <<config, monitor>>

ExecContext(c, query) ==
    /\ CanCall(c) /\ InUse
    /\ PrimaryOp(c, "ExecContext", IsQuerySqlFunc(query), FALSE)
    /\ UNCHANGED <<config, monitor>>

Prepare(c, query) ==
    /\ CanCall(c) /\ InUse
    /\ LET isQuery == IsQuerySqlFunc(query) IN
       IF isQuery
       THEN readReplicaRoundRobin(c, "Prepare", isQuery, FALSE, FALSE)
       ELSE PrimaryOp(c, "Prepare", isQuery, FALSE)
    /\ UNCHANGED <<config, monitor>>

\* a variant that falls back to a replica on a DB in maintenance
PrepareContextFallingBack(c, query, usePrimary) ==
    /\ CanCall(c) /\ InUse
    /\ LET isQuery == IsQuerySqlFunc(query) IN
       IF isQuery /\ (~usePrimary \/ primaryInMaintence)
       THEN readReplicaRoundRobin(c, "PrepareContext", isQuery, usePrimary,
                                  FALSE)
       ELSE PrimaryOp(c, "PrepareContext", isQuery, usePrimary)
    /\ UNCHANGED <<config, monitor>>

\* a variant that sends every select to a replica
PrepareContextIgnoringDirective(c, query, usePrimary) ==
    /\ CanCall(c) /\ InUse
    /\ LET isQuery == IsQuerySqlFunc(query) IN
       IF isQuery
       THEN readReplicaRoundRobin(c, "PrepareContext", isQuery, usePrimary,
                                  FALSE)
       ELSE PrimaryOp(c, "PrepareContext", isQuery, usePrimary)
    /\ UNCHANGED <<config, monitor>>

PrepareContext(c, query, usePrimary) ==
    /\ CanCall(c) /\ InUse
    /\ LET isQuery == IsQuerySqlFunc(query) IN
       IF isQuery /\ ~usePrimary
       THEN readReplicaRoundRobin(c, "PrepareContext", isQuery, usePrimary,
                                  FALSE)
       ELSE PrimaryOp(c, "PrepareContext", isQuery, usePrimary)
    /\ UNCHANGED <<config, monitor>>

\* ------------------------------------------------------------------- Close
\* the handles a broadcasting operation calls, in the order it calls them
Handles == IF primaryInMaintence THEN readreplicas
           ELSE <<master>> \o readreplicas

\* the calls among the first n of handles that returned an error, in order
RECURSIVE Failures(_, _, _)
Failures(handles, callErr, n) ==
    IF n = 0 THEN <<>>
    ELSE Failures(handles, callErr, n - 1)
         \o (IF callErr[n] THEN <<handles[n]>> ELSE <<>>)

\* errs = multierr.Append(errs, err) for each handle whose Close failed
RECURSIVE multierrFrom(_, _, _)
multierrFrom(handles, closeErr, i) ==
    IF i > Len(handles) THEN <<>>
    ELSE (IF closeErr[i] THEN <<handles[i]>> ELSE <<>>)
         \o multierrFrom(handles, closeErr, i + 1)

\* ------------------------------------------------------ Ping, PingContext
\* the first call from the i-th on that returns an error, 0 if none does
RECURSIVE FirstError(_, _, _)
FirstError(handles, callErr, i) ==
    IF i > Len(handles) THEN 0
    ELSE IF callErr[i] THEN i
    ELSE FirstError(handles, callErr, i + 1)

\* a variant that goes on after a Ping that failed and returns the error of
\* the first one
PingEvery(c, op) ==
    /\ CanCall(c) /\ InUse
    /\ DoValidateNew \/ (master # "nil" /\ Len(readreplicas) # 0)
    /\ primaryInMaintence \/ master # "nil"
    /\ \E pingErr \in [1..Len(Handles) -> BOOLEAN] :
         LET n == FirstError(Handles, pingErr, 1) IN
         IF n = 0
         THEN ReturnAll(c, op, "nil", Handles, <<>>, <<>>)
         ELSE ReturnAll(c, op, PingError, Handles,
                        Failures(Handles, pingErr, Len(Handles)),
                        <<Handles[n]>>)
    /\ UNCHANGED <<config, monitor>>

\* Ping and PingContext have the same body up to the method they call
PingAll(c, op) ==
    /\ CanCall(c) /\ InUse
    /\ IF ~DoValidateNew /\ master = "nil"
       THEN Return(c, op, FALSE, FALSE, ErrNotProvidedPrimary, <<>>)
       ELSE IF ~DoValidateNew /\ Len(readreplicas) = 0
       THEN Return(c, op, FALSE, FALSE, ErrNotProvidedReplicas, <<>>)
       ELSE IF ~primaryInMaintence /\ master = "nil"
       THEN Return(c, op, FALSE, FALSE, NilDereference, <<>>)
       ELSE \E pingErr \in [1..Len(Handles) -> BOOLEAN] :
              LET n == FirstError(Handles, pingErr, 1) IN
              IF n = 0
              THEN ReturnAll(c, op, "nil", Handles, <<>>, <<>>)
              ELSE ReturnAll(c, op, PingError, SubSeq(Handles, 1, n),
                             <<Handles[n]>>, <<Handles[n]>>)
    /\ UNCHANGED <<config, monitor>>

Ping(c) == PingAll(c, "Ping")

PingContext(c) == PingAll(c, "PingContext")

\* --------------- SetConnMaxLifetime, SetMaxIdleConns, SetMaxOpenConns
\* a variant that sets the primary's pool also in maintenance
SetAllAlways(c, op) ==
    /\ CanCall(c) /\ InUse
    /\ master # "nil"
    /\ ReturnAll(c, op, "nil", <<master>> \o readreplicas, <<>>, <<>>)
    /\ UNCHANGED <<config, monitor>>

\* the three have the same body up to the method they call
SetAll(c, op) ==
    /\ CanCall(c) /\ InUse
    /\ IF ~DoValidateNew /\ master = "nil"
       THEN Return(c, op, FALSE, FALSE, ErrNotProvidedPrimary, <<>>)
       ELSE IF ~DoValidateNew /\ Len(readreplicas) = 0
       THEN Return(c, op, FALSE, FALSE, ErrNotProvidedReplicas, <<>>)
       ELSE IF ~primaryInMaintence /\ master = "nil"
       THEN Return(c, op, FALSE, FALSE, NilDereference, <<>>)
       ELSE ReturnAll(c, op, "nil", Handles, <<>>, <<>>)
    /\ UNCHANGED <<config, monitor>>

SetConnMaxLifetime(c) == SetAll(c, "SetConnMaxLifetime")

SetMaxIdleConns(c) == SetAll(c, "SetMaxIdleConns")

SetMaxOpenConns(c) == SetAll(c, "SetMaxOpenConns")

\* a variant that returns at the first Close that fails
CloseUntilError(c) ==
    /\ CanCall(c)
    /\ stopHeartbeat = "open"
    /\ stopHeartbeat' = "closed"
    /\ \E closeErr \in [1..Len(Handles) -> BOOLEAN] :
         LET n == IF \E i \in 1..Len(Handles) : closeErr[i]
                  THEN CHOOSE i \in 1..Len(Handles) :
                         closeErr[i] /\ \A j \in 1..(i - 1) : ~closeErr[j]
                  ELSE Len(Handles)
         IN ReturnAll(c, "Close",
                      IF n = 0 \/ ~closeErr[n] THEN "nil" ELSE "multierr",
                      SubSeq(Handles, 1, n), Failures(Handles, closeErr, n),
                      Failures(Handles, closeErr, n))
    /\ UNCHANGED <<config, unavailableReplicas, hb, DoValidateNew, uChanged,
                   pingFailed>>

\* a variant that closes the handles whenever it is called
CloseAgain(c) ==
    /\ CanCall(c)
    /\ stopHeartbeat' = "closed"
    /\ IF ~primaryInMaintence /\ master = "nil"
       THEN Return(c, "Close", FALSE, FALSE, NilDereference, <<>>)
       ELSE \E closeErr \in [1..Len(Handles) -> BOOLEAN] :
              LET errs == multierrFrom(Handles, closeErr, 1) IN
              ReturnAll(c, "Close",
                        IF errs = <<>> THEN "nil" ELSE "multierr",
                        Handles,
                        Failures(Handles, closeErr, Len(Handles)),
                        errs)
    /\ UNCHANGED <<config, unavailableReplicas, hb, DoValidateNew, uChanged,
                   pingFailed>>

Close(c) ==
    /\ CanCall(c)
    /\ IF stopHeartbeat = "closed"
       THEN /\ Return(c, "Close", FALSE, FALSE, CloseOfClosedChannel, <<>>)
            /\ UNCHANGED stopHeartbeat
       ELSE /\ stopHeartbeat' = "closed"
            /\ IF ~primaryInMaintence /\ master = "nil"
               THEN Return(c, "Close", FALSE, FALSE, NilDereference, <<>>)
               ELSE \E closeErr \in [1..Len(Handles) -> BOOLEAN] :
                      LET errs == multierrFrom(Handles, closeErr, 1) IN
                      ReturnAll(c, "Close",
                                IF errs = <<>> THEN "nil" ELSE "multierr",
                                Handles,
                                Failures(Handles, closeErr, Len(Handles)),
                                errs)
    /\ UNCHANGED <<config, unavailableReplicas, hb, DoValidateNew, uChanged,
                   pingFailed>>

\* DoValidateNew is an exported package variable ("Also can update it
\* programatically"); an operation reads it only in its first step
SetDoValidateNew(b) ==
    /\ Alive
    /\ InProgress = {}
    /\ b # DoValidateNew
    /\ DoValidateNew' = b
    /\ last' = NoCall
    /\ UNCHANGED <<config, count, countMutex, unavailableReplicas,
                   stopHeartbeat, hb, call, nSel, uChanged, pingFailed,
                   observed>>

\* ------------------------------------------- the goroutine started by New
\* with DisableReplicaAutoFailover the ticker is nil and the select
\* statement evaluates ticker.C
heartbeatNilTicker ==
    /\ hb = "select"
    /\ ~needHeartbeat
    /\ hb' = "crashed"
    /\ last' = NoCall
    /\ UNCHANGED <<config, count, countMutex, unavailableReplicas,
                   stopHeartbeat, DoValidateNew, call, nSel, uChanged, pingFailed,
                   observed>>

\* case <-ticker.C: db.countMutex.Lock()
heartbeatTick ==
    /\ hb = "select"
    /\ needHeartbeat
    /\ countMutex = "unlocked"
    /\ countMutex' = "heartbeat"
    /\ hb' = "heartbeat"
    /\ last' = NoCall
    /\ UNCHANGED <<config, count, unavailableReplicas, stopHeartbeat,
                   DoValidateNew, call, nSel, uChanged, pingFailed,
                   observed>>

\* a variant that adds the replicas that failed to the set it finds
heartbeatPublishAccumulating ==
    /\ hb = "heartbeat"
    /\ \E pingErr \in [1..Len(readreplicas) -> BOOLEAN] :
          /\ unavailableReplicas' =
                unavailableReplicas \cup heartbeat(readreplicas, pingErr)
          /\ pingFailed' = PingFailures(readreplicas, pingErr)
    /\ countMutex' = "unlocked"
    /\ hb' = "select"
    /\ uChanged' = (uChanged \/ unavailableReplicas' # unavailableReplicas)
    /\ last' = NoCall
    /\ UNCHANGED <<config, count, stopHeartbeat, DoValidateNew, call, nSel,
                   observed>>

\* a variant that publishes the set when only the first replica was pinged
heartbeatPublishPartial ==
    /\ hb = "heartbeat"
    /\ \E pingErr \in [1..Len(readreplicas) -> BOOLEAN] :
          /\ unavailableReplicas' =
                heartbeat(SubSeq(readreplicas, 1, 1), pingErr)
          /\ pingFailed' = PingFailures(readreplicas, pingErr)
    /\ countMutex' = "unlocked"
    /\ hb' = "select"
    /\ uChanged' = (uChanged \/ unavailableReplicas' # unavailableReplicas)
    /\ last' = NoCall
    /\ UNCHANGED <<config, count, stopHeartbeat, DoValidateNew, call, nSel,
                   observed>>

\* a variant that drops the replicas that failed from db.readreplicas
heartbeatPublishEvicting ==
    /\ hb = "heartbeat"
    /\ \E pingErr \in [1..Len(readreplicas) -> BOOLEAN] :
          /\ unavailableReplicas' = {}
          /\ pingFailed' = PingFailures(readreplicas, pingErr)
          /\ readreplicas' = SelectSeq(readreplicas,
                                LAMBDA r : r \notin heartbeat(readreplicas, pingErr))
    /\ countMutex' = "unlocked"
    /\ hb' = "select"
    /\ uChanged' = (uChanged \/ unavailableReplicas' # unavailableReplicas)
    /\ last' = NoCall
    /\ UNCHANGED <<master, needHeartbeat, primaryInMaintence, clients, count,
                   stopHeartbeat, DoValidateNew, call, nSel, observed>>

\* db.unavailableReplicas = heartbeat(db.readreplicas); Unlock()
heartbeatPublish ==
    /\ hb = "heartbeat"
    /\ \E pingErr \in [1..Len(readreplicas) -> BOOLEAN] :
          /\ unavailableReplicas' = heartbeat(readreplicas, pingErr)
          /\ pingFailed' = PingFailures(readreplicas, pingErr)
    /\ countMutex' = "unlocked"
    /\ hb' = "select"
    /\ uChanged' = (uChanged \/ unavailableReplicas' # unavailableReplicas)
    /\ last' = NoCall
    /\ UNCHANGED <<config, count, stopHeartbeat, DoValidateNew, call, nSel,
                   observed>>

\* a variant that goes back to the select statement
heartbeatStopIgnored ==
    /\ hb = "select"
    /\ needHeartbeat
    /\ stopHeartbeat = "closed"
    /\ hb' = "select"
    /\ last' = NoCall
    /\ UNCHANGED <<config, count, countMutex, unavailableReplicas,
                   stopHeartbeat, DoValidateNew, call, nSel, uChanged, pingFailed,
                   observed>>

\* case <-stop: ticker.Stop(); return
heartbeatStop ==
    /\ hb = "select"
    /\ needHeartbeat
    /\ stopHeartbeat = "closed"
    /\ hb' = "stopped"
    /\ last' = NoCall
    /\ UNCHANGED <<config, count, countMutex, unavailableReplicas,
                   stopHeartbeat, DoValidateNew, call, nSel, uChanged, pingFailed,
                   observed>>

Next ==
    \/ \E c \in clients, query \in Queries : Query(c, query)
    \/ \E c \in clients, query \in Queries, usePrimary \in BOOLEAN :
          QueryContext(c, query, usePrimary)
    \/ \E c \in clients, query \in Queries : QueryRow(c, query)
    \/ \E c \in clients, query \in Queries, usePrimary \in BOOLEAN :
          QueryRowContext(c, query, usePrimary)
    \/ \E c \in clients : Begin(c)
    \/ \E c \in clients : BeginTx(c)
    \/ \E c \in clients, query \in Queries : Exec(c, query)
    \/ \E c \in clients, query \in Queries : ExecContext(c, query)
    \/ \E c \in clients, query \in Queries : Prepare(c, query)
    \/ \E c \in clients, query \in Queries, usePrimary \in BOOLEAN :
          PrepareContext(c, query, usePrimary)
    \/ \E c \in clients : readReplicaRoundRobinHelper(c)
    \/ \E c \in clients : readReplicaRoundRobinCheck(c)
    \/ \E c \in clients : Ping(c)
    \/ \E c \in clients : PingContext(c)
    \/ \E c \in clients : SetConnMaxLifetime(c)
    \/ \E c \in clients : SetMaxIdleConns(c)
    \/ \E c \in clients : SetMaxOpenConns(c)
    \/ \E c \in clients : Close(c)
    \/ \E b \in BOOLEAN : SetDoValidateNew(b)
    \/ heartbeatNilTicker
    \/ heartbeatTick
    \/ heartbeatPublish
    \/ heartbeatStop

\* one goroutine uses the DB while the goroutine started by New runs
SequentialInit == Init /\ clients = 1..1

Spec == SequentialInit /\ [][Next]_vars

\* MaxClients goroutines query through a DB that New validated and that has
\* its heartbeat
ConcurrentInit ==
    /\ Init
    /\ clients = 1..MaxClients
    /\ validateNew(master, readreplicas) = "nil"
    /\ needHeartbeat
    /\ ~DoValidateNew

ConcurrentNext ==
    \/ \E c \in clients, query \in Queries : Query(c, query)
    \/ \E c \in clients, query \in Queries, usePrimary \in BOOLEAN :
          QueryContext(c, query, usePrimary)
    \/ \E c \in clients, query \in Queries : QueryRow(c, query)
    \/ \E c \in clients : readReplicaRoundRobinHelper(c)
    \/ \E c \in clients : readReplicaRoundRobinCheck(c)
    \/ heartbeatTick
    \/ heartbeatPublish

ConcurrentSpec == ConcurrentInit /\ [][ConcurrentNext]_vars

\* ------------------------------------------------------- validateQuery
Select == <<"s","e","l","e","c","t">>

\* the word select in every mix of upper and lower case
SelectInAnyCase ==
    { [i \in 1..6 |-> IF upper[i] THEN ToUpper(Select[i]) ELSE Select[i]] :
        upper \in [1..6 -> BOOLEAN] }

\* the statements handed to validateQuery: select in any case, alone or
\* followed by text, the same after a blank, the beginnings of select,
\* and statements that start with another keyword
ClassifierQueries ==
    UNION { {w, w \o <<" ","1">>, <<" ">> \o w, <<" ">> \o w \o <<" ","1">>} :
              w \in SelectInAnyCase }
    \cup { SubSeq(Select, 1, n) : n \in 0..5 }
    \cup { <<"s","e","l","e","c"," ","t">>,
           <<"i","n","s","e","r","t"," ","1">>,
           <<"I","N","S","E","R","T">>,
           <<"u","p","d","a","t","e"," ","t">>,
           <<"d","e","l","e","t","e"," ","t">> }

\* the values of args ...interface{}
ClassifierArgs == { <<>>, <<"1">>, <<"select">>, <<"insert", "1">> }

\* a call of validateQuery(query, args...) that has not run yet; the
\* function is package level and needs no DB
BeforeValidateQuery ==
    /\ \E query \in ClassifierQueries, args \in ClassifierArgs :
          last = [NoCall EXCEPT !.query = query, !.args = args]
    /\ master = "nil" /\ readreplicas = <<>>
    /\ DoValidateNew = FALSE /\ needHeartbeat = FALSE
    /\ primaryInMaintence = FALSE
    /\ hb = "none"
    /\ unavailableReplicas = {} /\ pingFailed = {}
    /\ count = 0
    /\ countMutex = "unlocked"
    /\ stopHeartbeat = "nil"
    /\ clients = 1..1
    /\ call = [c \in clients |-> Idle]
    /\ nSel = 0
    /\ uChanged = FALSE
    /\ observed = <<>>

\* validateQuery(query, args...): IsQuerySqlFunc(query) decides
ValidateQuery ==
    /\ last.op = "-"
    /\ last' = [last EXCEPT !.op = "validateQuery",
                            !.ro = IsQuerySqlFunc(last.query),
                            !.err = validateQuery(last.query)]
    /\ UNCHANGED <<config, count, countMutex, unavailableReplicas,
                   stopHeartbeat, hb, DoValidateNew, call, nSel, uChanged,
                   pingFailed, observed>>

ClassifierNext == ValidateQuery

ClassifierSpec == BeforeValidateQuery /\ [][ClassifierNext]_vars

\* --------------------------------------------------------------- New
\* the arguments and the package variables of a call of New that has not
\* run yet: no DB and no goroutine exist
BeforeNew ==
    /\ master \in {"primary", "nil"}
    /\ \E n \in 0..MaxReplicas :
         readreplicas \in [1..n -> {ReplicaNames[1], ReplicaNames[2], "nil"}]
    /\ DoValidateNew \in BOOLEAN
    /\ needHeartbeat \in BOOLEAN
    /\ primaryInMaintence \in BOOLEAN
    /\ hb = "none"
    /\ unavailableReplicas = {} /\ pingFailed = {}
    /\ count = 0
    /\ countMutex = "unlocked"
    /\ stopHeartbeat = "nil"
    /\ clients = 1..1
    /\ call = [c \in clients |-> Idle]
    /\ last = NoCall
    /\ nSel = 0
    /\ uChanged = FALSE
    /\ observed = <<>>

\* New(master, readreplicas...): panics, or returns the DB and starts the
\* goroutine
New(c) ==
    /\ hb = "none" /\ last = NoCall
    /\ UNCHANGED <<config, DoValidateNew, call, nSel, uChanged, observed,
                   countMutex>>
    /\ IF DoValidateNew /\ validateNew(master, readreplicas) # "nil"
       THEN /\ UNCHANGED <<count, unavailableReplicas, pingFailed,
                           stopHeartbeat, hb>>
            /\ last' = Result("New", FALSE, FALSE,
                              validateNew(master, readreplicas), <<>>,
                              "none", 0, count)
       ELSE IF needHeartbeat /\ \E i \in 1..Len(readreplicas) :
                                   readreplicas[i] = "nil"
       THEN \* heartbeat calls r.Ping() on a nil handle
            /\ UNCHANGED <<count, unavailableReplicas, pingFailed,
                           stopHeartbeat, hb>>
            /\ last' = Result("New", FALSE, FALSE, NilDereference, <<>>,
                              "none", 0, count)
       ELSE /\ count' = -1
            /\ stopHeartbeat' = "open"
            /\ hb' = "select"
            /\ IF needHeartbeat
               THEN \E pingErr \in [1..Len(readreplicas) -> BOOLEAN] :
                      /\ unavailableReplicas' =
                            heartbeat(readreplicas, pingErr)
                      /\ pingFailed' = PingFailures(readreplicas, pingErr)
               ELSE unavailableReplicas' = {} /\ pingFailed' = {}
            /\ last' = Result("New", FALSE, FALSE, "nil", <<>>, "none", 0,
                              count')

NewNext == \E c \in clients : New(c)

NewSpec == BeforeNew /\ [][NewNext]_vars

\* one goroutine queries through a DB with FailoverReplicas replicas, a
\* primary and its heartbeat
FailoverInit ==
    /\ Constructed(FailoverReplicas)
    /\ clients = 1..1
    /\ master = "primary"
    /\ needHeartbeat

FailoverNext ==
    \/ \E c \in clients, query \in Queries : Query(c, query)
    \/ \E c \in clients : readReplicaRoundRobinHelper(c)
    \/ \E c \in clients : readReplicaRoundRobinCheck(c)
    \/ heartbeatTick
    \/ heartbeatPublish

FailoverSpec == FailoverInit /\ [][FailoverNext]_vars

\* one goroutine uses and closes a DB with replicas whose goroutine has a
\* ticker.  A pass that started ends (every Ping returns), and a select
\* statement that finds stopHeartbeat closed again and again takes that case
\* at some time: Go chooses among the ready cases at random
CloseInit ==
    /\ Init
    /\ clients = 1..1
    /\ needHeartbeat
    /\ validateNew(master, readreplicas) = "nil"

CloseNext ==
    \/ \E c \in clients, query \in Queries : Query(c, query)
    \/ \E c \in clients : readReplicaRoundRobinHelper(c)
    \/ \E c \in clients : readReplicaRoundRobinCheck(c)
    \/ \E c \in clients : Close(c)
    \/ heartbeatTick
    \/ heartbeatPublish
    \/ heartbeatStop

CloseSpec ==
    /\ CloseInit
    /\ [][CloseNext]_vars
    /\ WF_vars(heartbeatPublish)
    /\ SF_vars(heartbeatStop)

\* one goroutine selects on a DB with a primary and replicas that has made
\* m selection attempts before, for any m from 0 to the number that takes
\* count, which started at -1 and grew by one per attempt, to the largest
\* value of an int
CursorInit ==
    /\ master = "primary"
    /\ \E n \in 1..MaxReplicas : readreplicas = SubSeq(ReplicaNames, 1, n)
    /\ DoValidateNew = FALSE
    /\ needHeartbeat = TRUE
    /\ \E pingErr \in [1..Len(readreplicas) -> BOOLEAN] :
          /\ unavailableReplicas = heartbeat(readreplicas, pingErr)
          /\ pingFailed = PingFailures(readreplicas, pingErr)
    /\ count \in -1..MaxInt
    /\ countMutex = "unlocked"
    /\ stopHeartbeat = "open"
    /\ primaryInMaintence = FALSE
    /\ hb = "select"
    /\ clients = 1..1
    /\ call = [c \in clients |-> Idle]
    /\ last = NoCall
    /\ nSel = 0
    /\ uChanged = FALSE
    /\ observed = <<>>

CursorNext ==
    \/ \E c \in clients, query \in Queries : Query(c, query)
    \/ \E c \in clients, query \in Queries : QueryRow(c, query)
    \/ \E c \in clients : readReplicaRoundRobinHelper(c)
    \/ \E c \in clients : readReplicaRoundRobinCheck(c)

CursorSpec == CursorInit /\ [][CursorNext]_vars

\* ================================================================ claims
\* C1: on a DB whose unavailable set was empty since New and that one caller
\* uses at a time, the k-th selection (counted from 0, bypassing or checked)
\* returns the replica of index k mod N, so 2N selections go through the
\* indices 0..N-1 twice in order
C1_RoundRobinOrder ==
    ( /\ Cardinality(clients) = 1
      /\ unavailableReplicas = {} /\ ~uChanged
      /\ Len(readreplicas) >= 1
      /\ last.sel # "none" )
    => /\ last.err = "nil"
       /\ last.invoked = <<readreplicas[((nSel - 1) % Len(readreplicas)) + 1]>>
       /\ last.attempts = 1
       /\ count = nSel - 1

\* the 2N-th selection of a DB with N = 2 replicas returned index 1
C1_Witness ==
    /\ Cardinality(clients) = 1
    /\ unavailableReplicas = {} /\ ~uChanged
    /\ Len(readreplicas) = 2
    /\ nSel = 4
    /\ last.sel = "checked"
    /\ last.invoked = <<readreplicas[2]>>

\* C2: a health-checked selection never returns a replica that is in the
\* unavailable set published at the moment it returns
C2_NeverUnavailable ==
    (last.sel = "checked" /\ last.err = "nil")
    => /\ Len(last.invoked) = 1
       /\ last.invoked[1] \in Replicas \ unavailableReplicas

\* a health-checked selection skipped an unavailable replica and returned
\* the next one
C2_Witness ==
    /\ last.sel = "checked" /\ last.err = "nil"
    /\ last.attempts = 2
    /\ unavailableReplicas # {}
    /\ last.invoked[1] \notin unavailableReplicas

\* C3: with every configured replica unavailable throughout, a health-checked
\* selection ends with ErrNoReplicaAvailable after exactly len(readreplicas)
\* attempts, the cursor advanced by as much, and Query, QueryContext, Prepare
\* and PrepareContext of a read-only query return that error and invoke no
\* handle, the primary's included
C3_AllUnavailable ==
    /\ ( /\ last.sel = "checked"
         /\ unavailableReplicas = Replicas /\ ~uChanged
         /\ (DoValidateNew \/ Len(readreplicas) >= 1) )
       => /\ last.err = ErrNoReplicaAvailable
          /\ last.attempts = Len(readreplicas)
          /\ last.advanced = Len(readreplicas)
          /\ last.invoked = <<>>
          /\ ~last.panic
    /\ ( /\ needHeartbeat
         /\ last.ro
         /\ \/ last.op \in {"Query", "Prepare"}
            \/ last.op \in {"QueryContext", "PrepareContext"} /\ ~last.up )
       => last.sel = "checked"

\* Prepare of a select on a DB whose two replicas are both unavailable
C3_Witness ==
    /\ Len(readreplicas) = 2
    /\ unavailableReplicas = Replicas /\ ~uChanged
    /\ last.op = "Prepare" /\ last.ro
    /\ last.err = ErrNoReplicaAvailable
    /\ last.attempts = 2
    /\ master = "primary" /\ ~primaryInMaintence

\* C4: ErrNoReplicaAvailable is returned only when no replica is available:
\* with any number of concurrent callers, a health-checked selection during
\* which the unavailable set stayed what New published, with a replica
\* outside it, returns a replica
C4_OnlyWhenNoneAvailable ==
    (last.err = ErrNoReplicaAvailable /\ ~uChanged)
    => unavailableReplicas = Replicas

\* C5: on a DB in maintenance, Exec, ExecContext, Begin, BeginTx, and Prepare
\* and PrepareContext of a query that is not a select fail with
\* ErrPrimaryInMaintenance, invoke no handle and leave the cursor alone
C5_MaintenanceBlocksPrimary ==
    ( /\ primaryInMaintence
      /\ \/ last.op \in {"Exec", "ExecContext", "Begin", "BeginTx"}
         \/ last.op \in {"Prepare", "PrepareContext"} /\ ~last.ro )
    => /\ last.err = ErrPrimaryInMaintenance
       /\ last.invoked = <<>>
       /\ last.sel = "none"
       /\ last.advanced = 0
       /\ ~last.panic

\* PrepareContext of an insert failed on a DB in maintenance that has a
\* primary and replicas
C5_Witness ==
    /\ primaryInMaintence
    /\ master = "primary" /\ Len(readreplicas) = 2
    /\ last.op = "PrepareContext" /\ ~last.ro
    /\ last.err = ErrPrimaryInMaintenance
    /\ nSel >= 1

\* C6: on a DB in maintenance, Query of a select is routed as on any other
\* DB: it takes its replica by health-checked round robin and succeeds
\* whenever a replica is available
C6_MaintenanceQuery ==
    ( /\ primaryInMaintence
      /\ last.op = "Query" /\ last.ro
      /\ unavailableReplicas # Replicas /\ ~uChanged )
    => /\ last.sel = "checked"
       /\ last.err = "nil"
       /\ Len(last.invoked) = 1
       /\ last.invoked[1] \in Replicas \ unavailableReplicas

\* C7: on a DB not in maintenance, QueryContext, QueryRowContext and
\* PrepareContext of a select with the use-primary directive delegate to the
\* primary (if the DB has one; to nothing if not), take no replica and leave
\* the cursor alone
C7_DirectiveRoutesToPrimary ==
    ( /\ ~primaryInMaintence
      /\ last.op \in {"QueryContext", "QueryRowContext", "PrepareContext"}
      /\ last.up /\ last.ro )
    => /\ last.sel = "none"
       /\ last.advanced = 0
       /\ IF master # "nil"
          THEN last.err = "nil" /\ last.invoked = <<master>>
          ELSE last.err # "nil" /\ last.invoked = <<>>

\* QueryRowContext of a select with the directive went to the primary of a
\* DB whose replicas are all available
C7_Witness ==
    /\ ~primaryInMaintence
    /\ last.op = "QueryRowContext" /\ last.up /\ last.ro
    /\ last.invoked = <<"primary">>
    /\ Len(readreplicas) = 2 /\ unavailableReplicas = {}
    /\ count = -1

\* C8 as the specification states it: on a DB not in maintenance,
\* QueryContext with the use-primary directive skips the validation, so a
\* query that is not a select is delegated to the primary and not rejected
\* with ErrNotQuerySQL
C8_DirectiveSkipsValidation ==
    ( /\ ~primaryInMaintence /\ master # "nil"
      /\ last.op = "QueryContext" /\ last.up /\ ~last.ro )
    => /\ last.err # ErrNotQuerySQL
       /\ last.invoked = <<master>>

\* C8 as the code has it: QueryContext validates the query before it looks
\* at the directive, so with the directive a query that is not a select is
\* rejected with ErrNotQuerySQL and no handle is invoked; only a select goes
\* to the primary
C8_DirectiveAfterValidation ==
    ( /\ ~primaryInMaintence /\ master # "nil"
      /\ last.op = "QueryContext" /\ last.up )
    => IF last.ro
       THEN last.err = "nil" /\ last.invoked = <<master>>
       ELSE /\ last.err = ErrNotQuerySQL
            /\ last.invoked = <<>>
            /\ last.sel = "none"
            /\ last.advanced = 0

\* QueryContext of an insert with the directive was rejected
C8_Witness ==
    /\ ~primaryInMaintence /\ master = "primary"
    /\ last.op = "QueryContext" /\ last.up /\ ~last.ro
    /\ last.err = ErrNotQuerySQL
    /\ last.invoked = <<>>

\* C9: Query, and QueryContext without the directive, of a query that is
\* not a select fail with ErrNotQuerySQL, invoke no handle, and change
\* neither the cursor nor the unavailable set
C9_RejectedBeforeRouting ==
    /\ [](( /\ last.op \in {"Query", "QueryContext"}
            /\ ~last.up /\ ~last.ro )
          => /\ last.err = ErrNotQuerySQL
             /\ last.invoked = <<>>
             /\ last.sel = "none"
             /\ last.advanced = 0
             /\ ~last.panic)
    /\ [][last'.err = ErrNotQuerySQL
            => UNCHANGED <<count, unavailableReplicas, nSel>>]_vars

\* Query of an insert was rejected after the cursor had moved
C9_Witness ==
    /\ last.op = "Query" /\ ~last.up /\ ~last.ro
    /\ last.err = ErrNotQuerySQL
    /\ count = 0 /\ nSel = 1
    /\ unavailableReplicas # {}

\* C10: Exec, ExecContext, Begin and BeginTx target the primary whatever
\* the query: they fail without invoking a handle or delegate to the
\* primary only, and they never take a replica or move the cursor
C10_AlwaysPrimary ==
    last.op \in {"Exec", "ExecContext", "Begin", "BeginTx"}
    => /\ last.sel = "none"
       /\ last.advanced = 0
       /\ last.attempts = 0
       /\ \/ last.err = "nil" /\ master # "nil" /\ last.invoked = <<master>>
          \/ last.err # "nil" /\ last.invoked = <<>>

\* Exec of a select went to the primary of a DB that has available replicas
C10_Witness ==
    /\ last.op = "Exec" /\ last.ro
    /\ last.invoked = <<"primary">>
    /\ Len(readreplicas) = 2 /\ unavailableReplicas = {}
    /\ needHeartbeat

\* C11: a query that is not a select is never delegated to a replica,
\* whichever of Query, QueryContext, QueryRow, QueryRowContext, Prepare,
\* PrepareContext, Exec, ExecContext it is given to
C11_OnlySelectsOnReplicas ==
    ( /\ last.op \in {"Query", "QueryContext", "QueryRow", "QueryRowContext",
                      "Prepare", "PrepareContext", "Exec", "ExecContext"}
      /\ ~last.ro )
    => \A i \in 1..Len(last.invoked) : last.invoked[i] \notin Replicas

\* C12: the first Close of a DB closes the primary (unless in maintenance)
\* and then every replica once each in list order, also after a Close that
\* failed; the error it returns is made of the errors of exactly the handles
\* whose Close failed, and is nil iff none failed
C12_CloseAggregates ==
    (last.op = "Close" /\ ~last.panic)
    => /\ last.invoked = (IF primaryInMaintence THEN <<>> ELSE <<master>>)
                         \o readreplicas
       /\ last.errs = last.failed
       /\ \A i \in 1..Len(last.failed) :
             \E j \in 1..Len(last.invoked) : last.invoked[j] = last.failed[i]
       /\ (last.err = "nil") <=> (last.failed = <<>>)

\* the Close of the primary and of the second replica failed, the Close of
\* the first replica between them did not
C12_Witness ==
    /\ last.op = "Close"
    /\ last.invoked = <<"primary", "r0", "r1">>
    /\ last.failed = <<"primary", "r1">>
    /\ last.errs = <<"primary", "r1">>
    /\ last.err # "nil"

\* C13: once Close has closed stopHeartbeat and returned, the goroutine of
\* New starts no further heartbeat pass and publishes no further unavailable
\* set, whether a tick was pending or a pass was in progress at the Close
C13_CloseStopsMonitor ==
    [][stopHeartbeat = "closed"
         => /\ ~(hb = "select" /\ hb' = "heartbeat")
            /\ ~(hb = "heartbeat" /\ hb' = "select")]_vars

\* C14: New runs one heartbeat pass before it returns, so as long as no tick
\* has published another set the unavailable set is the set of replicas
\* whose Ping failed in New, and the first checked selection returns the
\* first replica in list order whose Ping did not fail; with replica 0 of 3
\* failing, the selections return the indices 1, 2, 1, 2
C14_FirstSelectionSeesNewPass ==
    /\ (needHeartbeat /\ ~uChanged) => unavailableReplicas = pingFailed
    /\ (last.sel = "checked" /\ nSel = 1 /\ ~uChanged)
       => LET up == {i \in 1..Len(readreplicas) :
                       readreplicas[i] \notin pingFailed}
          IN IF up = {}
             THEN last.err = ErrNoReplicaAvailable
             ELSE LET first == CHOOSE i \in up : \A j \in up : i <= j
                  IN /\ last.invoked = <<readreplicas[first]>>
                     /\ last.attempts = first
    /\ ( /\ last.sel = "checked" /\ ~uChanged
         /\ Len(readreplicas) = 3 /\ pingFailed = {readreplicas[1]} )
       => last.invoked = <<readreplicas[IF nSel % 2 = 1 THEN 2 ELSE 3]>>

\* the fourth selection on a DB of 3 replicas whose replica 0 failed its
\* Ping in New returned replica 2
C14_Witness ==
    /\ Len(readreplicas) = 3 /\ pingFailed = {"r0"} /\ ~uChanged
    /\ nSel = 4
    /\ last.sel = "checked"
    /\ last.invoked = <<"r2">>

\* C15: on a DB in maintenance no operation calls a method of the primary:
\* the primary-targeted operations fail with ErrPrimaryInMaintenance, and
\* Ping, PingContext, the three Set operations and Close leave the primary
\* out and go through the replicas (all of them, unless a Ping fails)
C15_MaintenanceSparesPrimary ==
    primaryInMaintence
    => /\ \A i \in 1..Len(last.invoked) : last.invoked[i] \in Replicas
       /\ ( \/ last.op \in {"Exec", "ExecContext", "Begin", "BeginTx"}
            \/ last.op \in {"Prepare", "PrepareContext"} /\ ~last.ro
            \/ last.op = "PrepareContext" /\ last.up )
          => last.err = ErrPrimaryInMaintenance /\ last.invoked = <<>>
       /\ ( /\ last.op \in {"SetConnMaxLifetime", "SetMaxIdleConns",
                             "SetMaxOpenConns", "Close"}
            /\ ~last.panic )
          => last.invoked = readreplicas
       /\ (last.op \in {"Ping", "PingContext"} /\ last.failed = <<>>
              /\ last.err \notin {ErrNotProvidedPrimary,
                                  ErrNotProvidedReplicas})
          => last.invoked = readreplicas /\ last.err = "nil"

\* SetMaxOpenConns on a DB in maintenance that has a primary and 2 replicas
C15_Witness ==
    /\ primaryInMaintence /\ master = "primary"
    /\ last.op = "SetMaxOpenConns"
    /\ last.invoked = <<"r0", "r1">>

\* C17: Ping and PingContext ping the primary (unless in maintenance) and
\* then the replicas in list order, return the error of the first Ping
\* that fails without pinging a later handle, return nil only if every
\* Ping succeeded, and change neither the cursor nor the unavailable set
C17_PingFirstError ==
    /\ []( ( /\ last.op \in {"Ping", "PingContext"}
             /\ ~last.panic
             /\ last.err \notin {ErrNotProvidedPrimary,
                                 ErrNotProvidedReplicas} )
           => LET hs == (IF primaryInMaintence THEN <<>> ELSE <<master>>)
                        \o readreplicas
                  n == Len(last.invoked)
              IN /\ n <= Len(hs)
                 /\ last.invoked = SubSeq(hs, 1, n)
                 /\ IF last.err = "nil"
                    THEN n = Len(hs) /\ last.failed = <<>>
                    ELSE /\ last.err = PingError
                         /\ last.failed = <<last.invoked[n]>>
                         /\ last.errs = last.failed
                 /\ last.advanced = 0
                 /\ last.sel = "none" )
    /\ [][last'.op \in {"Ping", "PingContext"}
            => UNCHANGED <<count, unavailableReplicas>>]_vars

\* the Ping of the first replica failed and the second was not pinged
C17_Witness ==
    /\ last.op = "Ping"
    /\ readreplicas = <<"r0", "r1">>
    /\ last.invoked = <<"primary", "r0">>
    /\ last.failed = <<"r0">>
    /\ last.err = PingError

\* C16: with DoValidateNew set, New panics with ErrNotProvidedPrimary if the
\* primary is nil, and with ErrNotProvidedReplicas if the list of replicas
\* is empty or holds a nil handle, so a DB that New returned under
\* DoValidateNew has a primary and a non-empty list of non-nil replicas
C16_ValidatedConstruction ==
    /\ (last.op = "New" /\ DoValidateNew /\ master = "nil")
       => last.panic /\ last.err = ErrNotProvidedPrimary /\ hb = "none"
    /\ ( /\ last.op = "New" /\ DoValidateNew /\ master # "nil"
         /\ \/ readreplicas = <<>>
            \/ \E i \in 1..Len(readreplicas) : readreplicas[i] = "nil" )
       => last.panic /\ last.err = ErrNotProvidedReplicas /\ hb = "none"
    /\ (DoValidateNew /\ hb # "none")
       => /\ master # "nil"
          /\ readreplicas # <<>>
          /\ \A i \in 1..Len(readreplicas) : readreplicas[i] # "nil"
          /\ ~last.panic

\* New panicked on a list whose second handle is nil
C16_Witness ==
    /\ last.op = "New" /\ DoValidateNew
    /\ master = "primary"
    /\ readreplicas = <<"r0", "nil">>
    /\ last.panic /\ last.err = ErrNotProvidedReplicas

\* C18: no operation of the DB and no pass of the heartbeat goroutine
\* changes primaryInMaintence, master or readreplicas; the steps that change
\* anything of the DB's routing state change count or unavailableReplicas
C18_ConfigurationFixed ==
    [][UNCHANGED <<primaryInMaintence, master, readreplicas>>]_vars

\* after selections and a pass that changed unavailableReplicas the
\* settings of both replicas were changed on a DB with the list as built
C18_Witness ==
    /\ last.op = "SetMaxOpenConns" /\ last.err = "nil"
    /\ uChanged /\ count >= 1
    /\ unavailableReplicas # {}
    /\ readreplicas = <<"r0", "r1">>
    /\ master = "primary" /\ ~primaryInMaintence

\* C19: IsQuerySqlFunc holds exactly for the statements of six characters
\* or more whose first six are s, e, l, e, c, t in upper or lower case; a
\* statement that starts with a blank or with insert, update or delete is
\* not a query; the args of the call make no difference
C19_DefaultClassifier ==
    last.op = "validateQuery" =>
      LET q == last.query
      IN /\ last.ro <=> /\ Len(q) >= 6
                         /\ q[1] \in {"s", "S"} /\ q[2] \in {"e", "E"}
                         /\ q[3] \in {"l", "L"} /\ q[4] \in {"e", "E"}
                         /\ q[5] \in {"c", "C"} /\ q[6] \in {"t", "T"}
         /\ (last.err = "nil") <=> last.ro
         /\ last.err \in {"nil", ErrNotQuerySQL}
         /\ (Len(q) >= 1 /\ q[1] \in {" ", "i", "I", "u", "d"}) => ~last.ro

\* a statement in mixed case was accepted in a call with args
C19_Witness ==
    /\ last.op = "validateQuery"
    /\ last.query = <<"S","e","L","e","c","T"," ","1">>
    /\ last.args = <<"insert", "1">>
    /\ last.ro /\ last.err = "nil"

\* C20: with goroutines selecting concurrently no increment of count is
\* lost or seen twice: after m calls of the helper count is -1 + m, the
\* calls saw the values 0..m-1, each once, and while no replica has been
\* unavailable the indices they computed are i % N for i = 0..m-1
C20_NoLostIncrement ==
    /\ count = Len(observed) - 1
    /\ \A i \in 1..Len(observed) : observed[i][1] = i - 1
    /\ (unavailableReplicas = {} /\ ~uChanged)
       => \A i \in 1..Len(observed) :
             observed[i][2] = (i - 1) % Len(readreplicas)

\* two goroutines are both between the helper and the check, on different
\* replicas, after three calls of the helper
C20_Witness ==
    /\ clients = 1..MaxClients
    /\ call[1].pc = "check" /\ call[2].pc = "check"
    /\ call[1].r # call[2].r
    /\ Len(observed) >= 3
    /\ unavailableReplicas = {} /\ ~uChanged

\* C21: the Pings of a heartbeat pass do not block the selection of a
\* replica: while the goroutine is in a pass whose Pings have not returned,
\* a goroutine that is about to call the helper or to look up the replica
\* in unavailableReplicas can take that step
C21_PingsDoNotBlockSelection ==
    \A c \in clients :
        (hb = "heartbeat" /\ call[c].pc \in {"helper", "check"})
        => ENABLED (readReplicaRoundRobinHelper(c)
                      \/ readReplicaRoundRobinCheck(c))

\* C22: a selection never sees a partly built unavailable set: in every
\* interleaving of selections with heartbeat passes, the set that the lookup
\* of a selection reads is the whole result of the latest finished pass (the
\* one of New or a tick), and the lookup decides by that result
C22_WholePassConsulted ==
    [][\A c \in clients :
          (call[c].pc = "check" /\ call'[c].pc # "check")
          => /\ unavailableReplicas = pingFailed
             /\ (last'.err = "nil" /\ last'.invoked = <<call[c].r>>)
                  <=> call[c].r \notin pingFailed]_vars

\* after a tick published another set than New did, a lookup let r1 pass
\* while the other goroutine was between its helper and its lookup
C22_Witness ==
    /\ clients = 1..MaxClients
    /\ uChanged /\ pingFailed = {"r0"}
    /\ last.sel = "checked" /\ last.err = "nil" /\ last.invoked = <<"r1">>
    /\ \E c \in clients : call[c].pc = "check"

\* C23: a heartbeat pass publishes exactly the replicas whose Ping failed in
\* that pass, whatever the set was before: a replica that was unavailable
\* and answers now is no longer in the set, one that fails now is in it
C23_PassPublishesFailures ==
    [][(hb = "heartbeat" /\ hb' = "select")
         => /\ unavailableReplicas' = pingFailed'
            /\ \A r \in unavailableReplicas \ pingFailed' :
                  r \notin unavailableReplicas'
            /\ \A r \in pingFailed' \ unavailableReplicas :
                  r \in unavailableReplicas']_vars

\* the only replica of a DB had been unavailable, a later pass found it
\* answering, and a checked selection returned it
C23_Witness ==
    /\ readreplicas = <<"r0">>
    /\ uChanged /\ unavailableReplicas = {}
    /\ last.sel = "checked" /\ last.err = "nil" /\ last.invoked = <<"r0">>

\* C24: for one goroutine with count = c and an unavailable set U that stays
\* the same and leaves a replica out, a checked selection returns the first
\* replica in the order c+1, c+2, ... (mod N) that is not in U and leaves
\* count at that position: count advances by 1 plus the number of
\* unavailable replicas skipped
C24_FirstAvailableInCyclicOrder ==
    ( /\ Cardinality(clients) = 1
      /\ last.sel = "checked"
      /\ ~uChanged
      /\ Len(readreplicas) >= 1
      /\ unavailableReplicas # Replicas )
    => LET N == Len(readreplicas)
           c == count - last.advanced
           At(k) == readreplicas[((c + k) % N) + 1]
           ks == {k \in 1..N : At(k) \notin unavailableReplicas}
           first == CHOOSE k \in ks : \A j \in ks : k <= j
       IN /\ last.err = "nil"
          /\ last.invoked = <<At(first)>>
          /\ \A k \in 1..(first - 1) : At(k) \in unavailableReplicas
          /\ last.advanced = first
          /\ last.attempts = first
          /\ readreplicas[(count % N) + 1] = At(first)

\* with r0 and r1 of three replicas unavailable, a selection that started
\* with count at r2 skipped both and returned r2 again
C24_Witness ==
    /\ Len(readreplicas) = 3
    /\ unavailableReplicas = {"r0", "r1"} /\ ~uChanged
    /\ last.sel = "checked"
    /\ last.advanced = 3
    /\ last.invoked = <<"r2">>
    /\ count = 5

\* C25: QueryRow, QueryRowContext without the directive, and every selection
\* of a DB built with DisableReplicaAutoFailover select without the check:
\* on a DB with replicas the selection increments count once, returns
\* readreplicas[count % N] whether or not it is in unavailableReplicas, and
\* never ends with ErrNoReplicaAvailable
C25_BypassIsPureRoundRobin ==
    /\ ( /\ Len(readreplicas) >= 1
         /\ \/ last.op = "QueryRow"
            \/ last.op = "QueryRowContext" /\ ~last.up
            \/ ~needHeartbeat /\ last.sel # "none" )
       => last.sel = "bypass"
    /\ (last.sel = "bypass" /\ Len(readreplicas) >= 1)
       => /\ last.err = "nil" /\ ~last.panic
          /\ last.advanced = 1 /\ last.attempts = 1
          /\ last.invoked = <<readreplicas[(count % Len(readreplicas)) + 1]>>

\* QueryRow was sent to r0 although r0 is in the unavailable set
C25_Witness ==
    /\ needHeartbeat
    /\ last.op = "QueryRow" /\ last.sel = "bypass"
    /\ last.invoked = <<"r0">>
    /\ "r0" \in unavailableReplicas
    /\ "r1" \notin unavailableReplicas
    /\ Len(readreplicas) = 2

\* C26: once Close has closed stopHeartbeat, the goroutine of New returns
\* (after ticker.Stop()) at some time, whether it was in the select statement
\* or in a heartbeat pass when Close ran
C26_MonitorTerminates ==
    (stopHeartbeat = "closed") ~> (hb = "stopped")

\* Close has returned while the goroutine is in a heartbeat pass: Close did
\* not wait for it
C26_Witness ==
    /\ last.op = "Close" /\ ~last.panic
    /\ stopHeartbeat = "closed"
    /\ hb = "heartbeat"

\* C27: Close works once: stopHeartbeat is closed at most once and stays
\* closed, and a Close of a DB whose stopHeartbeat is closed panics at
\* close(db.stopHeartbeat), before it calls Close of any handle again
C27_CloseIsOneShot ==
    [][stopHeartbeat = "closed"
         => /\ stopHeartbeat' = "closed"
            /\ last'.op = "Close"
               => /\ last'.panic
                  /\ last'.err = CloseOfClosedChannel
                  /\ last'.invoked = <<>>]_vars

\* the second Close of a DB with a primary and two replicas panicked
C27_Witness ==
    /\ last.op = "Close" /\ last.panic
    /\ last.err = CloseOfClosedChannel
    /\ last.invoked = <<>>
    /\ master = "primary" /\ ~primaryInMaintence
    /\ Len(readreplicas) = 2

\* C28: a DB built with DisableReplicaAutoFailover has no heartbeat activity:
\* its goroutine reads no ticker and runs no pass, unavailableReplicas stays
\* empty, and the DB stays usable until Close
C28_NoMonitorWhenDisabled ==
    ~needHeartbeat
    => /\ hb \notin {"heartbeat", "crashed"}
       /\ unavailableReplicas = {}
       /\ Alive

\* C29: QueryRow and QueryRowContext do not swallow a failure to find the
\* target: with DoValidateNew unset, an empty list of replicas makes them
\* panic with ErrNotProvidedReplicas and the directive with a nil primary
\* makes QueryRowContext panic with ErrNotProvidedPrimary; a call that
\* ended with an error panicked and called no method of a handle
C29_RowCallsPanicOnRoutingError ==
    last.op \in {"QueryRow", "QueryRowContext"}
    => LET toPrimary == last.op = "QueryRowContext" /\ last.up
                          /\ ~primaryInMaintence
       IN /\ (~DoValidateNew /\ ~toPrimary /\ readreplicas = <<>>)
               => /\ last.panic /\ last.err = ErrNotProvidedReplicas
                  /\ last.invoked = <<>>
          /\ (~DoValidateNew /\ toPrimary /\ master = "nil")
               => /\ last.panic /\ last.err = ErrNotProvidedPrimary
                  /\ last.invoked = <<>>
          /\ last.err # "nil" => (last.panic /\ last.invoked = <<>>)
          /\ last.err = "nil" => Len(last.invoked) = 1

\* QueryRowContext with the directive panicked on a DB without primary
C29_Witness ==
    /\ last.op = "QueryRowContext" /\ last.up
    /\ master = "nil" /\ ~DoValidateNew /\ ~primaryInMaintence
    /\ last.panic /\ last.err = ErrNotProvidedPrimary
    /\ Len(readreplicas) = 2

\* C30: Exec, ExecContext, Begin, BeginTx, and Prepare and PrepareContext
\* when they target the primary, check in this order: on a DB in maintenance
\* the result is ErrPrimaryInMaintenance, also when the primary is nil;
\* otherwise with a nil primary and DoValidateNew unset it is
\* ErrNotProvidedPrimary; otherwise the primary is called.  The two errors
\* come before any method of a handle is called
C30_PrimaryChecksOrdered ==
    ( \/ last.op \in {"Exec", "ExecContext", "Begin", "BeginTx"}
      \/ last.op = "Prepare" /\ ~last.ro
      \/ last.op = "PrepareContext" /\ (~last.ro \/ last.up) )
    => IF primaryInMaintence
       THEN last.err = ErrPrimaryInMaintenance /\ last.invoked = <<>>
            /\ ~last.panic
       ELSE IF master = "nil" /\ ~DoValidateNew
       THEN last.err = ErrNotProvidedPrimary /\ last.invoked = <<>>
            /\ ~last.panic
       ELSE master # "nil"
            => last.err = "nil" /\ last.invoked = <<master>>

\* BeginTx on a DB in maintenance whose primary is nil
C30_Witness ==
    /\ last.op = "BeginTx"
    /\ primaryInMaintence /\ master = "nil" /\ ~DoValidateNew
    /\ last.err = ErrPrimaryInMaintenance
    /\ last.invoked = <<>>

\* C31: Prepare and PrepareContext find their target from IsQuerySqlFunc and
\* the directive alone: a select without the directive goes to the replica
\* that readReplicaRoundRobin() selects (with the check of
\* unavailableReplicas, advancing count); every other combination goes to
\* the primary and leaves count as it is
C31_PrepareTarget ==
    last.op \in {"Prepare", "PrepareContext"}
    => IF last.ro /\ ~last.up
       THEN /\ last.sel # "none"
            /\ needHeartbeat => last.sel = "checked"
            /\ \A i \in 1..Len(last.invoked) : last.invoked[i] \in Replicas
            /\ last.err = "nil"
                 => (Len(last.invoked) = 1 /\ last.advanced >= 1)
       ELSE /\ last.sel = "none"
            /\ last.advanced = 0
            /\ last.invoked \in {<<>>, <<master>>}
            /\ (~primaryInMaintence /\ master # "nil")
                 => (last.err = "nil" /\ last.invoked = <<master>>)

\* PrepareContext of a select with the directive went to the primary
C31_Witness ==
    /\ last.op = "PrepareContext" /\ last.ro /\ last.up
    /\ last.invoked = <<"primary">>
    /\ last.advanced = 0
    /\ Len(readreplicas) = 2 /\ unavailableReplicas = {}

C33_PrepareContextDirectiveInMaintenance ==
    (primaryInMaintence /\ last.op = "PrepareContext" /\ last.up)
    => /\ last.err = ErrPrimaryInMaintenance
       /\ ~last.panic
       /\ last.invoked = <<>>
       /\ last.sel = "none"
       /\ last.advanced = 0 /\ last.attempts = 0

\* PrepareContext of a select with the directive failed on a DB in
\* maintenance that has two available replicas
C33_Witness ==
    /\ primaryInMaintence
    /\ last.op = "PrepareContext" /\ last.up /\ last.ro
    /\ last.err = ErrPrimaryInMaintenance
    /\ Len(readreplicas) = 2 /\ unavailableReplicas = {}
    /\ needHeartbeat

\* C34: a failing Ping of the heartbeat stays inside the DB: a step of the
\* heartbeat goroutine leaves count and every caller as they are and returns
\* nothing to a caller, a step of a selection leaves unavailableReplicas as
\* it is, and unavailableReplicas changes only when a pass publishes, so a
\* replica that starts to fail is selected until the next pass
C34_FailuresRecoveredLocally ==
    [][/\ hb' # hb => (count' = count /\ call' = call /\ last' = NoCall)
       /\ count' # count => unavailableReplicas' = unavailableReplicas
       /\ call' # call => unavailableReplicas' = unavailableReplicas
       /\ unavailableReplicas' # unavailableReplicas
            => (hb = "heartbeat" /\ hb' = "select")]_vars

\* after a pass found r1 failing and published it, a selection skipped r1
\* while the other goroutine was in a selection of its own
C34_Witness ==
    /\ clients = 1..MaxClients
    /\ uChanged /\ unavailableReplicas = {"r1"}
    /\ last.sel = "checked" /\ last.attempts = 2
    /\ last.invoked = <<"r0">>
    /\ \E c \in clients : call[c].pc = "helper"

\* C35: a selection on a DB whose list of replicas is empty ends with
\* ErrNotProvidedReplicas, computes no index (no count % 0) and leaves count
\* as it is, whether DoValidateNew is set or not when the call is made
C35_EmptyListRejected ==
    (readreplicas = <<>> /\ last.sel # "none")
    => /\ last.err = ErrNotProvidedReplicas
       /\ last.advanced = 0
       /\ countMutex = "unlocked"

\* C36: on a DB with replicas, in every state that count can reach from -1,
\* the index that the helper computes from count is one of 0..N-1, so the
\* helper's readreplicas[idx] is in bounds
C36_IndexInBounds ==
    /\ \A i \in 1..Len(observed) :
          observed[i][2] \in 0..(Len(readreplicas) - 1)
    /\ last.err # IndexOutOfRange

\* C37: count only grows: every selection attempt adds exactly one to it and
\* no step makes it smaller, also at the largest value of the int, and the
\* index computed from it stays in 0..N-1 there
C37_CursorMonotonic ==
    [][count' # count
         => /\ count' = count + 1
            /\ RoundRobinIndex(count', Len(readreplicas))
                 \in 0..(Len(readreplicas) - 1)]_vars

\* C38: in every state unavailableReplicas holds only handles of
\* readreplicas, never the primary or a handle the DB was not given, and it
\* is empty on a DB built with DisableReplicaAutoFailover
C38_UnavailableAreReplicas ==
    /\ unavailableReplicas \subseteq Replicas
    /\ master \notin unavailableReplicas
    /\ ~needHeartbeat => unavailableReplicas = {}

\* a pass after New found both replicas failing while the primary took
\* an Exec
C38_Witness ==
    /\ needHeartbeat /\ uChanged
    /\ Len(readreplicas) = 2
    /\ unavailableReplicas = {"r0", "r1"}
    /\ last.op = "Exec" /\ last.invoked = <<"primary">>

====
